---- MODULE Spec2Model ----
(***************************************************************************)
(* auto-doc-gen-universal: the module grouping heuristic of the ai:chunks  *)
(* command (src/src/cli.ts), the analyze command's save pipeline           *)
(* (src/src/cli.ts) and the watch service (src/src/services/               *)
(* watch-service.ts) with its build status (BuildServer).                  *)
(*                                                                         *)
(* Strings are sequences of one-character strings, so that toLowerCase,    *)
(* the suffix regexes, includes, split and the sanitising replace are      *)
(* computed character by character as the code computes them.              *)
(***************************************************************************)
EXTENDS Integers, Sequences, FiniteSets, TLC

VARIABLES
    cmd,          \* the CLI command this process runs: "group", "chunks", "analyze", "watch"
    pc,           \* position of the command's action / of the grouping call
    routes,       \* analysisData.routes
    services,     \* analysisData.services
    controllers,  \* analysisData.controllers
    types,        \* analysisData.types
    chunks,       \* the value groupRoutesByController returned (NoChunks before the call)
    cli,          \* state of the analyze / ai:chunks command action
    watch,        \* WatchService fields and the timing of its timer
    status,       \* BuildServer.status
    hist          \* history of the watch run (observations only, never read by the program)

vars == <<cmd, pc, routes, services, controllers, types, chunks, cli, watch, status, hist>>

(***************************************************************************)
(* Strings                                                                 *)
(***************************************************************************)
UpperChars == <<"A","B","C","D","E","F","G","H","I","J","K","L","M",
                "N","O","P","Q","R","S","T","U","V","W","X","Y","Z">>
LowerChars == <<"a","b","c","d","e","f","g","h","i","j","k","l","m",
                "n","o","p","q","r","s","t","u","v","w","x","y","z">>
DigitChars == <<"0","1","2","3","4","5","6","7","8","9">>

Range(s) == {s[i] : i \in DOMAIN s}

\* String.prototype.toLowerCase, on one character and on a string
lowerChar(c) ==
    IF \E i \in DOMAIN UpperChars : UpperChars[i] = c
    THEN LowerChars[CHOOSE i \in DOMAIN UpperChars : UpperChars[i] = c]
    ELSE c

toLowerCase(s) == [i \in DOMAIN s |-> lowerChar(s[i])]

\* String.prototype.endsWith / startsWith / includes
endsWith(s, suf) ==
    /\ Len(suf) <= Len(s)
    /\ SubSeq(s, Len(s) - Len(suf) + 1, Len(s)) = suf

startsWith(s, pre) ==
    /\ Len(pre) <= Len(s)
    /\ SubSeq(s, 1, Len(pre)) = pre

includes(s, sub) ==
    \E i \in 1..(Len(s) - Len(sub) + 1) : SubSeq(s, i, i + Len(sub) - 1) = sub

\* s.replace(/(alt1|alt2|...)$/i, ''): the alternatives are lower-case words;
\* the leftmost match, that is the longest matching suffix, is removed
stripSuffixI(s, alts) ==
    LET hits == {a \in alts : endsWith(toLowerCase(s), a)}
    IN  IF hits = {} THEN s
        ELSE LET a == CHOOSE x \in hits : \A y \in hits : Len(y) <= Len(x)
             IN  SubSeq(s, 1, Len(s) - Len(a))

\* String.prototype.split('/'): the segments between the separators, empty ones kept
RECURSIVE splitFrom(_, _, _)
splitFrom(s, i, cur) ==
    IF i > Len(s) THEN <<cur>>
    ELSE IF s[i] = "/" THEN <<cur>> \o splitFrom(s, i + 1, <<>>)
    ELSE splitFrom(s, i + 1, Append(cur, s[i]))

split(s) == splitFrom(s, 1, <<>>)

\* the character class [a-zA-Z0-9-_] of the sanitising regex
SafeChars == Range(UpperChars) \cup Range(LowerChars) \cup Range(DigitChars) \cup {"-", "_"}

\* moduleName.replace(/[^a-zA-Z0-9-_]/g, '_')
sanitize(s) == [i \in DOMAIN s |-> IF s[i] \in SafeChars THEN s[i] ELSE "_"]

(***************************************************************************)
(* String literals of cli.ts                                               *)
(***************************************************************************)
sService    == <<"s","e","r","v","i","c","e">>
sController == <<"c","o","n","t","r","o","l","l","e","r">>
sDto        == <<"d","t","o">>
sEntity     == <<"e","n","t","i","t","y">>
sModel      == <<"m","o","d","e","l">>
sType       == <<"t","y","p","e">>
sInterface  == <<"i","n","t","e","r","f","a","c","e">>
sUnknown    == <<"u","n","k","n","o","w","n">>
sApp        == <<"a","p","p">>
sSlash      == <<"/">>
sColon      == <<":">>
sEmpty      == <<>>

\* null and undefined are modelled by the empty string: every place that reads
\* such a value only tests its truthiness, and '' is falsy like null
Null == <<>>
truthy(s) == s # <<>>

(***************************************************************************)
(* extractModuleFromName (cli.ts 531-547)                                  *)
(***************************************************************************)
\* a plausible slip: the lower-casing forgotten
extractModuleFromName_NoLower(name) ==
    IF ~truthy(name) THEN Null
    ELSE LET cleanName == stripSuffixI(name,
                 {sService, sController, sDto, sEntity, sModel, sType, sInterface})
         IN  IF endsWith(cleanName, <<"y">>)
             THEN SubSeq(cleanName, 1, Len(cleanName) - 1) \o <<"i","e","s">>
             ELSE IF endsWith(cleanName, <<"s">>) THEN cleanName
             ELSE cleanName \o <<"s">>

extractModuleFromName(name) ==
    IF ~truthy(name) THEN Null
    ELSE LET cleanName == toLowerCase(stripSuffixI(name,
                 {sService, sController, sDto, sEntity, sModel, sType, sInterface}))
         IN  IF endsWith(cleanName, <<"y">>)
             THEN SubSeq(cleanName, 1, Len(cleanName) - 1) \o <<"i","e","s">>
             ELSE IF endsWith(cleanName, <<"s">>) THEN cleanName
             ELSE cleanName \o <<"s">>

(***************************************************************************)
(* The chunks object: `keys` are its own keys in insertion order, `bucket` *)
(* maps each key to its array, `threw` records a TypeError thrown while    *)
(* the object was filled.                                                  *)
(***************************************************************************)
EmptyChunks == [keys |-> <<>>, bucket |-> <<>>, threw |-> FALSE]

\* all-lower-case property names every object literal inherits: chunks[k] is
\* truthy for them although k is no own key, and the inherited value has no push
ObjectPrototypeKeys ==
    { <<"c","o","n","s","t","r","u","c","t","o","r">>,
      <<"_","_","p","r","o","t","o","_","_">> }

\* a plausible slip: the bucket is overwritten instead of appended to
pushRoute_Overwrite(ch, moduleName, route) ==
    IF ch.threw THEN ch
    ELSE IF moduleName \in DOMAIN ch.bucket
         THEN [ch EXCEPT !.bucket[moduleName] = <<route>>]
    ELSE IF moduleName \in ObjectPrototypeKeys
         THEN [ch EXCEPT !.threw = TRUE]
    ELSE [ch EXCEPT !.keys = Append(@, moduleName),
                    !.bucket = @ @@ (moduleName :> <<route>>)]

\* if (!chunks[moduleName]) chunks[moduleName] = []; chunks[moduleName].push(route)
\* (cli.ts 461-464 and 521-524)
pushRoute(ch, moduleName, route) ==
    IF ch.threw THEN ch
    ELSE IF moduleName \in DOMAIN ch.bucket
         THEN [ch EXCEPT !.bucket[moduleName] = Append(@, route)]
    ELSE IF moduleName \in ObjectPrototypeKeys
         THEN [ch EXCEPT !.threw = TRUE]
    ELSE [ch EXCEPT !.keys = Append(@, moduleName),
                    !.bucket = @ @@ (moduleName :> <<route>>)]

(***************************************************************************)
(* groupRoutesByController (cli.ts 430-529)                                *)
(***************************************************************************)
\* serviceModules (437-446): a Map in insertion order, as a sequence of
\* [module, serviceName]; set() on a present key replaces the value in place
RECURSIVE serviceModulesFrom(_, _)
serviceModulesFrom(svcs, acc) ==
    IF svcs = <<>> THEN acc
    ELSE LET service == Head(svcs)
             moduleName == extractModuleFromName(service.name)
             entry == [module |-> moduleName, serviceName |-> service.name]
             next ==
                 IF ~(truthy(service.name) /\ truthy(moduleName)) THEN acc
                 ELSE IF \E i \in DOMAIN acc : acc[i].module = moduleName
                 THEN [i \in DOMAIN acc |->
                          IF acc[i].module = moduleName THEN entry ELSE acc[i]]
                 ELSE Append(acc, entry)
         IN  serviceModulesFrom(Tail(svcs), next)

serviceModulesOf(svcs) == serviceModulesFrom(svcs, <<>>)

\* controller.routes.forEach (460-465)
RECURSIVE pushAll(_, _, _)
pushAll(ch, moduleName, rs) ==
    IF rs = <<>> THEN ch
    ELSE pushAll(pushRoute(ch, moduleName, Head(rs)), moduleName, Tail(rs))

\* controllers.forEach (454-468)
RECURSIVE controllerPass(_, _)
controllerPass(ctrls, ch) ==
    IF ctrls = <<>> THEN ch
    ELSE LET controller == Head(ctrls)
             moduleName == extractModuleFromName(controller.name)
             next ==
                 IF truthy(controller.name) /\ controller.hasRoutes /\ truthy(moduleName)
                 THEN pushAll(ch, moduleName, controller.routes)
                 ELSE ch
         IN  controllerPass(Tail(ctrls), next)

\* Strategy 1 of the fallback (475-488): the first service module, in Map
\* order, whose service base name the handler contains
serviceBase(serviceName) == toLowerCase(stripSuffixI(serviceName, {sService, sController}))

RECURSIVE matchService(_, _)
matchService(route, mods) ==
    IF mods = <<>> THEN sUnknown
    ELSE IF truthy(route.handler)
            /\ includes(toLowerCase(route.handler), serviceBase(Head(mods).serviceName))
         THEN Head(mods).module
    ELSE matchService(route, Tail(mods))

\* the path segments kept by the filter (496-501)
pathSegments(path) ==
    SelectSeq(split(path), LAMBDA segment : truthy(segment) /\ ~startsWith(segment, sColon))

\* Strategies 2 and 3 of the fallback (490-516); index is the 0-based position
moduleFromPath(route, index, mods) ==
    IF route.path = sSlash \/ route.path = sEmpty THEN sApp
    ELSE LET segs == pathSegments(route.path)
             routeGroup == index \div 3
         IN  IF Len(segs) > 0 THEN toLowerCase(segs[1])
             ELSE IF routeGroup < Len(mods)
                  THEN (IF truthy(mods[routeGroup + 1].module)
                        THEN mods[routeGroup + 1].module ELSE sApp)
             ELSE sApp

\* the module of one route of the fallback loop, sanitised (473-519)
fallbackModule(route, index, mods) ==
    LET byService == matchService(route, mods)
        moduleName == IF byService = sUnknown
                      THEN moduleFromPath(route, index, mods)
                      ELSE byService
    IN  sanitize(moduleName)

\* routes.forEach((route, index) => ...) (472-525)
RECURSIVE fallbackPass(_, _, _, _)
fallbackPass(rs, index, mods, ch) ==
    IF rs = <<>> THEN ch
    ELSE fallbackPass(Tail(rs), index + 1, mods,
                      pushRoute(ch, fallbackModule(Head(rs), index, mods), Head(rs)))

groupRoutesByController(rs, svcs, ctrls) ==
    LET mods == serviceModulesOf(svcs)
        byController == controllerPass(ctrls, EmptyChunks)
    IN  IF byController.threw THEN byController
        ELSE IF Len(byController.keys) = 0
             THEN fallbackPass(rs, 0, mods, byController)
        ELSE byController

(***************************************************************************)
(* Inputs: the analysis data handed to the grouping                        *)
(***************************************************************************)
MaxRoutes      == 4   \* longest route list of a grouping call
MaxServices    == 1   \* longest service list
MaxControllers == 2   \* longest controller list

Route(method, path, handler) == [method |-> method, path |-> path, handler |-> handler]

\* GET /a.b/:id  findOne
rItem  == Route("GET", <<"/","a",".","b","/",":","i","d">>, <<"f","i","n","d","O","n","e">>)
\* DELETE /:id  remove   (no segment that is not a parameter)
rParam == Route("DELETE", <<"/",":","i","d">>, <<"r","e","m","o","v","e">>)
\* GET /  getUser
rRoot  == Route("GET", <<"/">>, <<"g","e","t","U","s","e","r">>)
\* POST /constructor  (anonymous handler)
rCtor  == Route("POST", <<"/","c","o","n","s","t","r","u","c","t","o","r">>, <<>>)

RoutePool == {rItem, rParam, rRoot}

nUserService == <<"U","s","e","r","S","e","r","v","i","c","e">>
nCategory    == <<"C","a","t","e","g","o","r","y">>
ServicePool  == {[name |-> nUserService], [name |-> nCategory]}

nProductsController == <<"P","r","o","d","u","c","t","s","C","o","n","t","r","o","l","l","e","r">>
nUnsafeController   == <<"a","/","b","C","o","n","t","r","o","l","l","e","r">>
sProducts           == <<"p","r","o","d","u","c","t","s">>

Controller(name, hasRoutes, rs) == [name |-> name, hasRoutes |-> hasRoutes, routes |-> rs]

kProducts == Controller(nProductsController, TRUE, <<rItem, rParam>>)
kUnsafe   == Controller(nUnsafeController, TRUE, <<rItem>>)
kNoName   == Controller(sEmpty, TRUE, <<rRoot>>)

ControllerPool == {kProducts, kUnsafe, kNoName}

nUserDto  == <<"U","s","e","r","D","t","o">>
nAppType  == <<"A","p","p","T","y","p","e">>
TypePool  == {[name |-> nUserDto], [name |-> nAppType]}

SeqsUpTo(S, n) == UNION {[1..k -> S] : k \in 0..n}

\* lists without repetition: the analyzer reports a class once
DistinctSeqsUpTo(S, n) ==
    {q \in SeqsUpTo(S, n) : \A i, j \in DOMAIN q : q[i] = q[j] => i = j}

NoCli    == [step |-> "none"]
NoWatch  == [running |-> FALSE]
NoStatus == [status |-> "none"]
NoHist   == [n |-> 0]

(***************************************************************************)
(* The grouping call on its own: Init draws the three input lists, the     *)
(* one action applies groupRoutesByController to them.                     *)
(***************************************************************************)
InitGroup ==
    /\ cmd = "group"
    /\ pc = "call"
    /\ routes \in SeqsUpTo(RoutePool, MaxRoutes)
    /\ services \in DistinctSeqsUpTo(ServicePool, MaxServices)
    /\ controllers \in DistinctSeqsUpTo(ControllerPool, MaxControllers)
    /\ types = <<>>
    /\ chunks = EmptyChunks
    /\ cli = NoCli
    /\ watch = NoWatch
    /\ status = NoStatus
    /\ hist = NoHist

GroupCall ==
    /\ cmd = "group"
    /\ pc = "call"
    /\ chunks' = groupRoutesByController(routes, services, controllers)
    /\ pc' = IF chunks'.threw THEN "threw" ELSE "returned"
    /\ UNCHANGED <<cmd, routes, services, controllers, types, cli, watch, status, hist>>

NextGroup == GroupCall

SpecGroup == InitGroup /\ [][NextGroup]_vars

(***************************************************************************)
(* ai:chunks: generateChunkedAIDocumentation (cli.ts 285-408) under the    *)
(* command action (cli.ts 159-173).  The input file exists and an API key  *)
(* is configured.  Each action is the code between two awaits.             *)
(***************************************************************************)
MaxCmdRoutes      == 2   \* longest route list of an ai:chunks run
MaxCmdServices    == 1
MaxCmdControllers == 1
MaxTypes          == 1

CmdRoutePool      == {rItem, rRoot, rCtor}
CmdServicePool    == {[name |-> nUserService]}
CmdControllerPool == {kProducts}
CmdTypePool       == {[name |-> nAppType]}

\* getRelatedServices / getRelatedTypes (cli.ts 410-428): the same filter on names
relatedByName(moduleName, items) ==
    SelectSeq(items, LAMBDA item :
        \/ includes(toLowerCase(item.name), toLowerCase(moduleName))
        \/ (moduleName = sApp /\ includes(toLowerCase(item.name), sApp)))

getRelatedServices(moduleName, svcs) == relatedByName(moduleName, svcs)

getRelatedTypes(moduleName, tps) == relatedByName(moduleName, tps)

\* a plausible slip: the counts of the whole analysis are kept for the chunk
chunkMetadata_Stale(metadata, moduleData, relatedServices, relatedTypes, moduleName) ==
    [totalRoutes      |-> metadata.totalRoutes,
     totalControllers |-> metadata.totalControllers,
     totalServices    |-> metadata.totalServices,
     totalTypes       |-> metadata.totalTypes,
     moduleName       |-> moduleName]

\* metadata of chunkData (cli.ts 350-356): the spread keeps totalControllers
chunkMetadata(metadata, moduleData, relatedServices, relatedTypes, moduleName) ==
    [totalRoutes      |-> Len(moduleData),
     totalControllers |-> metadata.totalControllers,
     totalServices    |-> Len(relatedServices),
     totalTypes       |-> Len(relatedTypes),
     moduleName       |-> moduleName]

\* chunkData (cli.ts 339-357): the spread keeps the controllers of the analysis
chunkDataOf(ch, moduleName) ==
    LET moduleData == ch.bucket[moduleName]
        relatedServices == getRelatedServices(moduleName, services)
        relatedTypes == getRelatedTypes(moduleName, types)
    IN  [routes      |-> moduleData,
         controllers |-> controllers,
         services    |-> relatedServices,
         types       |-> relatedTypes,
         metadata    |-> chunkMetadata(cli.metadata, moduleData, relatedServices,
                                       relatedTypes, moduleName)]

JsonFile(moduleName) == [module |-> moduleName, ext |-> "analysis.json"]
MdFile(moduleName)   == [module |-> moduleName, ext |-> "md"]

InitChunks ==
    /\ cmd = "chunks"
    /\ pc = "start"
    /\ routes \in SeqsUpTo(CmdRoutePool, MaxCmdRoutes)
    /\ services \in SeqsUpTo(CmdServicePool, MaxCmdServices)
    /\ controllers \in SeqsUpTo(CmdControllerPool, MaxCmdControllers)
    /\ types \in SeqsUpTo(CmdTypePool, MaxTypes)
    /\ chunks = EmptyChunks
    /\ \E saveToDb \in BOOLEAN :
         cli = [saveToDb |-> saveToDb,
                idx      |-> 0,
                fs       |-> <<>>,
                connOpen |-> 0,
                dbFailed |-> FALSE,
                exit     |-> "running",
                metadata |-> [totalRoutes      |-> Len(routes),
                              totalControllers |-> Len(controllers),
                              totalServices    |-> Len(services),
                              totalTypes       |-> Len(types)]]
    /\ watch = NoWatch
    /\ status = NoStatus
    /\ hist = NoHist

\* a plausible slip: the chunk's JSON written after the AI call instead of before
beginModule_JsonLater(ch, i, c) ==
    IF i > Len(ch.keys)
    THEN /\ pc' = "done"
         /\ cli' = [c EXCEPT !.idx = i, !.exit = "0"]
    ELSE /\ pc' = "ai"
         /\ cli' = [c EXCEPT !.idx = i]

\* the loop head for the module at position i of Object.entries(chunks) (335-364):
\* past the last module the function returns; otherwise the chunk's JSON is
\* written and the AI call is made
beginModule(ch, i, c) ==
    IF i > Len(ch.keys)
    THEN /\ pc' = "done"
         /\ cli' = [c EXCEPT !.idx = i, !.exit = "0"]
    ELSE /\ pc' = "ai"
         /\ cli' = [c EXCEPT !.idx = i,
                             !.fs = (JsonFile(ch.keys[i]) :> chunkDataOf(ch, ch.keys[i])) @@ @]

\* 324-364: the grouping and the first module up to its AI call
ChunksStart ==
    /\ cmd = "chunks" /\ pc = "start"
    /\ chunks' = groupRoutesByController(routes, services, controllers)
    /\ IF chunks'.threw
       THEN /\ pc' = "failed"
            /\ cli' = [cli EXCEPT !.exit = "1"]
       ELSE beginModule(chunks', 1, cli)
    /\ UNCHANGED <<cmd, routes, services, controllers, types, watch, status, hist>>

\* after the DB block, or directly after the Markdown file when nothing is saved
afterModule(c) == beginModule(chunks, c.idx + 1, c)

\* 364-376: aiService.analyzeProject resolved: the Markdown file is written, then
\* the DB block is entered or the next module begins
ChunksAiOk ==
    /\ cmd = "chunks" /\ pc = "ai"
    /\ LET c == [cli EXCEPT !.fs = (MdFile(chunks.keys[cli.idx]) :> "documentation") @@ @]
       IN  IF c.saveToDb
           THEN /\ pc' = "db_connect"
                /\ cli' = c
           ELSE afterModule(c)
    /\ UNCHANGED <<cmd, routes, services, controllers, types, chunks, watch, status, hist>>

\* 364, 404-407, 169-171: the AI call rejected: rethrown, process.exit(1)
ChunksAiFail ==
    /\ cmd = "chunks" /\ pc = "ai"
    /\ pc' = "failed"
    /\ cli' = [cli EXCEPT !.exit = "1"]
    /\ UNCHANGED <<cmd, routes, services, controllers, types, chunks, watch, status, hist>>

\* 376: connect resolved
ChunksConnectOk ==
    /\ cmd = "chunks" /\ pc = "db_connect"
    /\ pc' = "db_save"
    /\ cli' = [cli EXCEPT !.connOpen = @ + 1]
    /\ UNCHANGED <<cmd, routes, services, controllers, types, chunks, watch, status, hist>>

\* 377-388: saveDocumentation resolved
ChunksSaveOk ==
    /\ cmd = "chunks" /\ pc = "db_save"
    /\ pc' = "db_disconnect"
    /\ UNCHANGED <<cmd, routes, services, controllers, types, chunks, cli, watch, status, hist>>

\* 389: disconnect resolved
ChunksDisconnectOk ==
    /\ cmd = "chunks" /\ pc = "db_disconnect"
    /\ afterModule([cli EXCEPT !.connOpen = @ - 1])
    /\ UNCHANGED <<cmd, routes, services, controllers, types, chunks, watch, status, hist>>

\* 390-395: connect, saveDocumentation or disconnect rejected: the catch warns and
\* the loop goes on
ChunksDbFail ==
    /\ cmd = "chunks" /\ pc \in {"db_connect", "db_save", "db_disconnect"}
    /\ afterModule([cli EXCEPT !.dbFailed = TRUE])
    /\ UNCHANGED <<cmd, routes, services, controllers, types, chunks, watch, status, hist>>

NextChunks ==
    \/ ChunksStart
    \/ ChunksAiOk
    \/ ChunksAiFail
    \/ ChunksConnectOk
    \/ ChunksSaveOk
    \/ ChunksDisconnectOk
    \/ ChunksDbFail

SpecChunks == InitChunks /\ [][NextChunks]_vars

(***************************************************************************)
(* analyze: the command action (cli.ts 53-113) with generateAIDocumentation *)
(* (cli.ts 204-283).  Each action is the code between two awaits.          *)
(***************************************************************************)
\* outputFile of the analysis (77-84) and of the AI documentation (243-247):
\* both are options.output when -o is given
analysisPath(c) == IF c.optOutput THEN "options.output" ELSE "analysisFilename"
docsPath(c)     == IF c.optOutput THEN "options.output" ELSE "docsFilename"

InitAnalyze ==
    /\ cmd = "analyze"
    /\ pc = "analyze"
    /\ routes = <<>> /\ services = <<>> /\ controllers = <<>> /\ types = <<>>
    /\ chunks = EmptyChunks
    /\ \E saveToDb, optAi, saveRaw, hasKey, saveAIDocs, optOutput \in BOOLEAN :
         cli = [saveToDb   |-> saveToDb,    \* options.saveToDb || config.database.enabled
                optAi      |-> optAi,       \* options.ai
                saveRaw    |-> saveRaw,     \* config.files.saveRawAnalysis
                hasKey     |-> hasKey,      \* aiConfig.apiKey is non-empty
                saveAIDocs |-> saveAIDocs,  \* config.files.saveAIDocs
                optOutput  |-> optOutput,   \* options.output is given
                fs         |-> <<>>,        \* files written, path -> content
                connOpen   |-> 0,           \* MongoDB connections opened and not closed
                db         |-> "none",      \* the save block 94-102: "none", "running", "saved", "failed"
                errorLog   |-> <<>>,        \* console.error calls
                dbFailures |-> 0,           \* MongoDB errors caught so far
                analysisOk |-> FALSE,       \* analyzer.analyze() resolved
                ai         |-> "none",      \* "none", "nokey", "called", "ok", "fail"
                exit       |-> "running"]   \* "running", "0", "1"
    /\ watch = NoWatch
    /\ status = NoStatus
    /\ hist = NoHist

\* the function returns and the process ends with status 0
finish(c) ==
    /\ pc' = "done"
    /\ cli' = [c EXCEPT !.exit = "0"]

\* process.exit(1)
exitError(c) ==
    /\ pc' = "failed"
    /\ cli' = [c EXCEPT !.exit = "1"]

\* 105-108 and 209-234: after the save block the AI documentation is generated if
\* requested; without an API key the process exits with status 1
afterAnalysisSave(c) ==
    IF ~c.optAi THEN finish(c)
    ELSE IF ~c.hasKey
         THEN exitError([c EXCEPT !.ai = "nokey",
                                  !.errorLog = Append(@, "AI API key required")])
    ELSE /\ pc' = "ai"
         /\ cli' = [c EXCEPT !.ai = "called"]

\* a plausible slip: the save block without its try/catch, the error reaching the
\* catch of the command action
analyzeDbCatch_Rethrow(c) ==
    exitError([c EXCEPT !.dbFailures = @ + 1, !.db = "failed",
                        !.errorLog = Append(@, "Analysis failed")])

\* 100-102: catch (error) { console.warn('MongoDB save failed') }
analyzeDbCatch(c) == afterAnalysisSave([c EXCEPT !.dbFailures = @ + 1, !.db = "failed"])

\* 275-277: the same catch in generateAIDocumentation, after which it returns
docsDbCatch(c) == finish([c EXCEPT !.dbFailures = @ + 1])

\* a plausible slip: the save block started without being awaited
AnalyzeOk_SaveNotAwaited ==
    /\ cmd = "analyze" /\ pc = "analyze"
    /\ LET c == [cli EXCEPT !.analysisOk = TRUE,
                            !.fs = IF cli.saveRaw
                                   THEN (analysisPath(cli) :> "analysis") @@ @
                                   ELSE @,
                            !.db = IF cli.saveToDb THEN "running" ELSE @]
       IN  afterAnalysisSave(c)
    /\ UNCHANGED <<cmd, routes, services, controllers, types, chunks, watch, status, hist>>

\* 60-96: analyzer.analyze() resolved; the raw analysis is written if enabled
AnalyzeOk ==
    /\ cmd = "analyze" /\ pc = "analyze"
    /\ LET c == [cli EXCEPT !.analysisOk = TRUE,
                            !.fs = IF cli.saveRaw
                                   THEN (analysisPath(cli) :> "analysis") @@ @
                                   ELSE @]
       IN  IF c.saveToDb
           THEN /\ pc' = "db_connect"
                /\ cli' = [c EXCEPT !.db = "running"]
           ELSE afterAnalysisSave(c)
    /\ UNCHANGED <<cmd, routes, services, controllers, types, chunks, watch, status, hist>>

\* 60, 109-112: analyzer.analyze() rejected
AnalyzeFail ==
    /\ cmd = "analyze" /\ pc = "analyze"
    /\ exitError([cli EXCEPT !.errorLog = Append(@, "Analysis failed")])
    /\ UNCHANGED <<cmd, routes, services, controllers, types, chunks, watch, status, hist>>

\* 96-97
AnalyzeConnectOk ==
    /\ cmd = "analyze" /\ pc = "db_connect"
    /\ pc' = "db_save"
    /\ cli' = [cli EXCEPT !.connOpen = @ + 1]
    /\ UNCHANGED <<cmd, routes, services, controllers, types, chunks, watch, status, hist>>

\* 97-98
AnalyzeSaveOk ==
    /\ cmd = "analyze" /\ pc = "db_save"
    /\ pc' = "db_disconnect"
    /\ UNCHANGED <<cmd, routes, services, controllers, types, chunks, cli, watch, status, hist>>

\* 98-99, 105-108
AnalyzeDisconnectOk ==
    /\ cmd = "analyze" /\ pc = "db_disconnect"
    /\ afterAnalysisSave([cli EXCEPT !.connOpen = @ - 1, !.db = "saved"])
    /\ UNCHANGED <<cmd, routes, services, controllers, types, chunks, watch, status, hist>>

\* 96-102: connect, saveAnalysis or disconnect rejected
AnalyzeDbFail ==
    /\ cmd = "analyze" /\ pc \in {"db_connect", "db_save", "db_disconnect"}
    /\ analyzeDbCatch(cli)
    /\ UNCHANGED <<cmd, routes, services, controllers, types, chunks, watch, status, hist>>

\* 234-259: aiService.analyzeProject resolved; the documentation is written if
\* enabled, then saved to MongoDB if requested
AiOk ==
    /\ cmd = "analyze" /\ pc = "ai"
    /\ LET c == [cli EXCEPT !.ai = "ok",
                            !.fs = IF cli.saveAIDocs
                                   THEN (docsPath(cli) :> "documentation") @@ @
                                   ELSE @]
       IN  IF c.saveToDb
           THEN /\ pc' = "doc_connect"
                /\ cli' = c
           ELSE finish(c)
    /\ UNCHANGED <<cmd, routes, services, controllers, types, chunks, watch, status, hist>>

\* a plausible slip: the catch of generateAIDocumentation without its rethrow
aiCatch_Swallow(c) ==
    finish([c EXCEPT !.ai = "fail",
                     !.errorLog = Append(@, "AI documentation generation failed")])

\* 279-282, 109-112: the catch of generateAIDocumentation logs and rethrows, the
\* catch of the command action logs and exits
aiCatch(c) ==
    exitError([c EXCEPT !.ai = "fail",
                        !.errorLog = Append(Append(@, "AI documentation generation failed"),
                                            "Analysis failed")])

\* 234: the AI call rejected
AiFail ==
    /\ cmd = "analyze" /\ pc = "ai"
    /\ aiCatch(cli)
    /\ UNCHANGED <<cmd, routes, services, controllers, types, chunks, watch, status, hist>>

\* 259-260
DocsConnectOk ==
    /\ cmd = "analyze" /\ pc = "doc_connect"
    /\ pc' = "doc_save"
    /\ cli' = [cli EXCEPT !.connOpen = @ + 1]
    /\ UNCHANGED <<cmd, routes, services, controllers, types, chunks, watch, status, hist>>

\* 260-273
DocsSaveOk ==
    /\ cmd = "analyze" /\ pc = "doc_save"
    /\ pc' = "doc_disconnect"
    /\ UNCHANGED <<cmd, routes, services, controllers, types, chunks, cli, watch, status, hist>>

\* 273-274
DocsDisconnectOk ==
    /\ cmd = "analyze" /\ pc = "doc_disconnect"
    /\ finish([cli EXCEPT !.connOpen = @ - 1])
    /\ UNCHANGED <<cmd, routes, services, controllers, types, chunks, watch, status, hist>>

\* 259-277: connect, saveDocumentation or disconnect rejected
DocsDbFail ==
    /\ cmd = "analyze" /\ pc \in {"doc_connect", "doc_save", "doc_disconnect"}
    /\ docsDbCatch(cli)
    /\ UNCHANGED <<cmd, routes, services, controllers, types, chunks, watch, status, hist>>

NextAnalyze ==
    \/ AnalyzeOk
    \/ AnalyzeFail
    \/ AnalyzeConnectOk
    \/ AnalyzeSaveOk
    \/ AnalyzeDisconnectOk
    \/ AnalyzeDbFail
    \/ AiOk
    \/ AiFail
    \/ DocsConnectOk
    \/ DocsSaveOk
    \/ DocsDisconnectOk
    \/ DocsDbFail

SpecAnalyze == InitAnalyze /\ [][NextAnalyze]_vars

(***************************************************************************)
(* BuildServer status (types/mongodb-data.types.ts 131-255)                *)
(***************************************************************************)
\* updateStatus({status, isBuilding}) (213-219)
updateStatus(st, text, building) == [st EXCEPT !.status = text, !.isBuilding = building]

\* incrementFilesProcessed (232-234)
incrementFilesProcessed(st) == [st EXCEPT !.filesProcessed = @ + 1]

\* a plausible slip: setError without its last assignment
setError_StillBuilding(st, e) == [st EXCEPT !.error = e, !.status = "Error occurred"]

\* setError (236-240)
setError(st, e) == [st EXCEPT !.error = e, !.status = "Error occurred", !.isBuilding = FALSE]

(***************************************************************************)
(* watch: WatchService (services/watch-service.ts).  Time is counted in    *)
(* ticks; a timer is due when its remaining time is 0, and a due timer     *)
(* fires before time advances and before a later file event is delivered.  *)
(***************************************************************************)
DebounceMs == 2   \* options.debounceMs, in ticks
MaxEvents  == 3   \* accepted file events of one run of the model
MaxTimers  == 2   \* timer handles the event loop can hold at once

Min(a, b) == IF a < b THEN a ELSE b

removeKey(f, k) == [x \in DOMAIN f \ {k} |-> f[x]]

removeAt(seq, i) == SubSeq(seq, 1, i - 1) \o SubSeq(seq, i + 1, Len(seq))

\* clearTimeout(handle): a handle that already fired, or null, clears nothing
clearTimeout(timers, handle) ==
    IF handle \in DOMAIN timers THEN removeKey(timers, handle) ELSE timers

freeHandles(timers) == (1..MaxTimers) \ DOMAIN timers

\* setTimeout(callback, delay): a new handle in the timer list of the event loop
setTimeout(timers, delay) ==
    LET handle == CHOOSE x \in freeHandles(timers) : \A y \in freeHandles(timers) : x <= y
    IN  [handle |-> handle, timers |-> timers @@ (handle :> delay)]

\* a plausible slip: the pending timer is not cleared before a new one is armed
debouncedAnalyze_NoClear(w) ==
    LET armed == setTimeout(w.timers, DebounceMs)
    IN  [w EXCEPT !.timers = armed.timers, !.debounceTimer = armed.handle]

\* debouncedAnalyze (151-159); debounceTimer = 0 stands for null
debouncedAnalyze(w) ==
    LET cleared == IF w.debounceTimer # 0
                   THEN clearTimeout(w.timers, w.debounceTimer)
                   ELSE w.timers
        armed == setTimeout(cleared, DebounceMs)
    IN  [w EXCEPT !.timers = armed.timers, !.debounceTimer = armed.handle]

\* what the history records of a debouncedAnalyze call: a call less than
\* DebounceMs after the previous one continues the burst, a later one starts a burst
histArm(h, accepted) ==
    LET inBurst == h.armed /\ h.sinceArm < DebounceMs
    IN  [h EXCEPT !.armed = TRUE,
                  !.sinceArm = 0,
                  !.burstLen = IF inBurst THEN Min(@ + 1, MaxEvents + 1) ELSE 1,
                  !.burstCalls = IF inBurst THEN @ ELSE 0,
                  !.dirty = @ \/ accepted]

MaxIgnored == 1   \* events on other files of one run of the model

sDotTs == <<".","t","s">>
sDotJs == <<".","j","s">>

\* the paths the watcher reports: a.ts, a.js, a.d.ts, a.md, a.tsx, a.json
EventPaths == {<<"a",".","t","s">>, <<"a",".","j","s">>, <<"a",".","d",".","t","s">>, <<"a",".","m","d">>, <<"a",".","t","s","x">>, <<"a",".","j","s","o","n">>}

\* a plausible slip: the extension looked for anywhere in the path
watchesPath_Includes(filePath) == includes(filePath, sDotTs) \/ includes(filePath, sDotJs)

\* handleFileChange (135): the test the early return negates
watchesPath(filePath) == endsWith(filePath, sDotTs) \/ endsWith(filePath, sDotJs)

\* the event counted by what its path ends in
histEvent(h, filePath) ==
    IF endsWith(filePath, sDotTs) \/ endsWith(filePath, sDotJs)
    THEN [h EXCEPT !.tsjs = @ + 1]
    ELSE [h EXCEPT !.other = @ + 1]

InitWatch ==
    /\ cmd = "watch"
    /\ pc = "watching"
    /\ routes = <<>> /\ services = <<>> /\ controllers = <<>> /\ types = <<>>
    /\ chunks = EmptyChunks
    /\ cli = NoCli
    /\ \E autoAnalyze, saveRaw \in BOOLEAN :
         watch = [phase         |-> "starting",  \* "starting", "watching", "closing", "stopped"
                  autoAnalyze   |-> autoAnalyze, \* options.autoAnalyze
                  saveRaw       |-> saveRaw,     \* config.files.saveRawAnalysis
                  debounceTimer |-> 0,
                  timers        |-> <<>>,        \* pending timers: handle -> ticks left
                  isAnalyzing   |-> FALSE,
                  runs          |-> <<>>]        \* performAnalysis calls in flight
    \* constructor (140-145) and start() (63-68)
    /\ status = [status |-> "Starting watch mode...", isBuilding |-> FALSE,
                 error |-> "none", filesProcessed |-> 0]
    /\ hist = [armed |-> FALSE, sinceArm |-> 0, burstLen |-> 0, burstCalls |-> 0,
               skipped |-> FALSE, dirty |-> FALSE, lastEnd |-> "none",
               stopInFlight |-> FALSE, stopTimerPending |-> FALSE,
               tsjs |-> 0, other |-> 0]   \* events by the ending of their path

Listening == cmd = "watch" /\ watch.phase \in {"starting", "watching"}

NoTimerDue == \A x \in DOMAIN watch.timers : watch.timers[x] > 0

\* the event loop can take one more timer
CanArm == freeHandles(watch.timers) # {}

\* the watcher's 'ready' handler (119-130)
WatcherReady ==
    /\ cmd = "watch" /\ watch.phase = "starting"
    /\ NoTimerDue
    /\ CanArm
    /\ status' = updateStatus(status, "Watching for changes...", FALSE)
    /\ IF watch.autoAnalyze
       THEN /\ watch' = [debouncedAnalyze(watch) EXCEPT !.phase = "watching"]
            /\ hist' = histArm(hist, FALSE)
       ELSE /\ watch' = [watch EXCEPT !.phase = "watching"]
            /\ hist' = hist
    /\ UNCHANGED <<cmd, pc, routes, services, controllers, types, chunks, cli>>

\* handleFileChange (133-149) for a path ending in .ts or .js
FileEventAccepted ==
    /\ Listening
    /\ NoTimerDue
    /\ status.filesProcessed < MaxEvents
    /\ CanArm
    /\ \E filePath \in EventPaths :
         /\ watchesPath(filePath)
         /\ hist' = histEvent(histArm(hist, TRUE), filePath)
    /\ status' = updateStatus(incrementFilesProcessed(status), "File event", TRUE)
    /\ watch' = debouncedAnalyze(watch)
    /\ UNCHANGED <<cmd, pc, routes, services, controllers, types, chunks, cli>>

\* handleFileChange (135-137) for any other path: it returns at once
FileEventIgnored ==
    /\ Listening
    /\ NoTimerDue
    /\ hist.other < MaxIgnored
    /\ \E filePath \in EventPaths :
         /\ ~watchesPath(filePath)
         /\ hist' = histEvent(hist, filePath)
    /\ UNCHANGED <<cmd, pc, routes, services, controllers, types, chunks, cli, watch, status>>

\* the watcher's 'error' handler (115-118)
WatcherError ==
    /\ Listening
    /\ status' = setError(status, "watch")
    /\ UNCHANGED <<cmd, pc, routes, services, controllers, types, chunks, cli, watch, hist>>

\* one tick of time passes
Tick ==
    /\ cmd = "watch"
    /\ NoTimerDue
    /\ watch' = [watch EXCEPT !.timers = [x \in DOMAIN @ |-> @[x] - 1]]
    /\ hist' = [hist EXCEPT !.sinceArm = Min(@ + 1, DebounceMs)]
    /\ UNCHANGED <<cmd, pc, routes, services, controllers, types, chunks, cli, status>>

\* a plausible slip: the early return placed inside the try block, so that the
\* finally block resets the guard of the analysis in flight
performAnalysisSkip_Finally(w) == [w EXCEPT !.isAnalyzing = FALSE]

\* performAnalysis (162-165): analysis already in progress, skipping
performAnalysisSkip(w) == w

\* performAnalysis (167-177) up to the await of analyzer.analyze()
performAnalysisStart(w) ==
    [w EXCEPT !.isAnalyzing = TRUE, !.runs = Append(@, [at |-> "analyze"])]

\* the debounce timer fires (156-158) and calls performAnalysis (161-177)
TimerFire ==
    /\ cmd = "watch"
    /\ \E x \in DOMAIN watch.timers :
         /\ watch.timers[x] = 0
         /\ LET w == [watch EXCEPT !.timers = removeKey(@, x)]
            IN  IF w.isAnalyzing
                THEN /\ watch' = performAnalysisSkip(w)
                     /\ status' = status
                     /\ hist' = [hist EXCEPT !.burstCalls = @ + 1, !.skipped = TRUE]
                ELSE /\ watch' = performAnalysisStart(w)
                     /\ status' = updateStatus(status, "Analyzing project...", TRUE)
                     /\ hist' = [hist EXCEPT !.burstCalls = @ + 1, !.dirty = FALSE]
    /\ UNCHANGED <<cmd, pc, routes, services, controllers, types, chunks, cli>>

\* a plausible slip: the guard reset only at the end of the try block, not in finally
endRun_GuardKept(w, i) == [w EXCEPT !.runs = removeAt(@, i)]

\* the finally block (224-226) ends the run
endRun(w, i) == [w EXCEPT !.isAnalyzing = FALSE, !.runs = removeAt(@, i)]

\* 194-226 after updateDatabaseStats returned: the analysis file is written if
\* configured, which may throw; then the status reports completion
finishRun(i, writeOk, how) ==
    /\ writeOk \/ watch.saveRaw
    /\ watch' = endRun(watch, i)
    /\ status' = IF writeOk
                 THEN updateStatus(status, "Analysis complete - watching for changes...", FALSE)
                 ELSE setError(status, "analysis")
    /\ hist' = [hist EXCEPT !.lastEnd = IF writeOk THEN how ELSE "write failed"]

\* updateDatabaseStats (255-257): the catch warns, performAnalysis goes on
statsCatch(i) == \E writeOk \in BOOLEAN : finishRun(i, writeOk, "stats failed")

\* 177-192: analyzer.analyze() resolved; updateDatabaseStats awaits getAnalysisStats
RunAnalyzeOk ==
    /\ cmd = "watch"
    /\ \E i \in DOMAIN watch.runs :
         /\ watch.runs[i].at = "analyze"
         /\ watch' = [watch EXCEPT !.runs[i].at = "stats"]
    /\ UNCHANGED <<cmd, pc, routes, services, controllers, types, chunks, cli, status, hist>>

\* 177, 221-226: analyzer.analyze() rejected
RunAnalyzeFail ==
    /\ cmd = "watch"
    /\ \E i \in DOMAIN watch.runs :
         /\ watch.runs[i].at = "analyze"
         /\ watch' = endRun(watch, i)
         /\ status' = setError(status, "analysis")
         /\ hist' = [hist EXCEPT !.lastEnd = "analysis failed"]
    /\ UNCHANGED <<cmd, pc, routes, services, controllers, types, chunks, cli>>

\* 231-232: getAnalysisStats resolved; getLatestDocuments is awaited
RunStatsOk ==
    /\ cmd = "watch"
    /\ \E i \in DOMAIN watch.runs :
         /\ watch.runs[i].at = "stats"
         /\ watch' = [watch EXCEPT !.runs[i].at = "docs"]
    /\ UNCHANGED <<cmd, pc, routes, services, controllers, types, chunks, cli, status, hist>>

\* 232-254, 194-226: getLatestDocuments resolved
RunDocsOk ==
    /\ cmd = "watch"
    /\ \E i \in DOMAIN watch.runs :
         /\ watch.runs[i].at = "docs"
         /\ \E writeOk \in BOOLEAN : finishRun(i, writeOk, "complete")
    /\ UNCHANGED <<cmd, pc, routes, services, controllers, types, chunks, cli>>

\* 231-232, 255-257: getAnalysisStats or getLatestDocuments rejected
RunStatsFail ==
    /\ cmd = "watch"
    /\ \E i \in DOMAIN watch.runs :
         /\ watch.runs[i].at \in {"stats", "docs"}
         /\ statsCatch(i)
    /\ UNCHANGED <<cmd, pc, routes, services, controllers, types, chunks, cli>>

\* stop() (87-91) up to the await of watcher.close()
StopBegin ==
    /\ Listening
    /\ NoTimerDue
    /\ watch' = [watch EXCEPT !.phase = "closing"]
    /\ pc' = "stopping"
    /\ hist' = [hist EXCEPT !.stopInFlight = (watch.runs # <<>>),
                            !.stopTimerPending = (watch.timers # <<>>)]
    /\ UNCHANGED <<cmd, routes, services, controllers, types, chunks, cli, status>>

\* a plausible slip: stop() without its clearTimeout
StopFinish_TimerLeft ==
    /\ cmd = "watch" /\ watch.phase = "closing"
    /\ watch' = [watch EXCEPT !.phase = "stopped"]
    /\ pc' = "stopped"
    /\ UNCHANGED <<cmd, routes, services, controllers, types, chunks, cli, status, hist>>

\* stop() (93-99) after watcher.close() resolved
StopFinish ==
    /\ cmd = "watch" /\ watch.phase = "closing"
    /\ watch' = [watch EXCEPT !.phase = "stopped",
                              !.timers = IF watch.debounceTimer # 0
                                         THEN clearTimeout(@, watch.debounceTimer)
                                         ELSE @,
                              !.debounceTimer = 0]
    /\ pc' = "stopped"
    /\ UNCHANGED <<cmd, routes, services, controllers, types, chunks, cli, status, hist>>

WatchRunning ==
    \/ WatcherReady
    \/ FileEventAccepted
    \/ FileEventIgnored
    \/ WatcherError
    \/ Tick
    \/ TimerFire
    \/ RunAnalyzeOk
    \/ RunAnalyzeFail
    \/ RunStatsOk
    \/ RunDocsOk
    \/ RunStatsFail

NextWatch ==
    \/ WatchRunning
    \/ StopBegin
    \/ StopFinish

SpecWatch == InitWatch /\ [][NextWatch]_vars

\* the watch service left running: stop() is never called, every due timer fires,
\* time advances, and every awaited call of an analysis in flight settles
RunStep == RunAnalyzeOk \/ RunAnalyzeFail \/ RunStatsOk \/ RunDocsOk \/ RunStatsFail

SpecWatchFair ==
    /\ InitWatch
    /\ [][WatchRunning]_vars
    /\ WF_vars(Tick)
    /\ WF_vars(TimerFire)
    /\ WF_vars(WatcherReady)
    /\ WF_vars(RunStep)

\* the watch service with stop(): as above, and stop() may be called at any time
SpecWatchStopFair ==
    /\ InitWatch
    /\ [][NextWatch]_vars
    /\ WF_vars(Tick)
    /\ WF_vars(TimerFire)
    /\ WF_vars(WatcherReady)
    /\ WF_vars(RunStep)

(***************************************************************************)
(* The CLI: one process runs one command                                   *)
(***************************************************************************)
\* the analyze and the watch command
InitCli == InitAnalyze \/ InitWatch

NextCli == NextAnalyze \/ NextWatch

SpecCli == InitCli /\ [][NextCli]_vars

Init == InitGroup \/ InitChunks \/ InitAnalyze \/ InitWatch

Next == NextGroup \/ NextChunks \/ NextAnalyze \/ NextWatch

Spec == Init /\ [][Next]_vars

(***************************************************************************)
(* Properties of the grouping                                              *)
(***************************************************************************)
CountIn(seq, x) == Cardinality({i \in DOMAIN seq : seq[i] = x})

\* how often route r occurs in the buckets of ch, over all modules
BucketCount(ch, r) ==
    Cardinality({ki \in UNION {{<<k, i>> : i \in DOMAIN ch.bucket[k]} : k \in DOMAIN ch.bucket} :
                    ch.bucket[ki[1]][ki[2]] = r})

\* the modules whose bucket holds route r
ModulesOf(ch, r) == {k \in DOMAIN ch.bucket : r \in Range(ch.bucket[k])}

Returned == cmd = "group" /\ pc = "returned"

\* C1: every route of the input route list is in at least one returned bucket,
\* for every combination of inputs
C1_EveryRoutePlaced ==
    Returned => \A i \in DOMAIN routes : ModulesOf(chunks, routes[i]) # {}

\* C2: the buckets form a partition of the input route list: over all buckets a
\* route occurs no more often than in the input list (so in no two modules, not
\* twice in one, and never without being an element of the input)
C2_BucketsPartition ==
    Returned =>
        \A k \in DOMAIN chunks.bucket : \A r \in Range(chunks.bucket[k]) :
            BucketCount(chunks, r) <= CountIn(routes, r)

\* C3: every route listed by a controller that has a name and a routes list is in
\* the module derived from that controller's name (products for ProductsController),
\* and a route some such controller lists is in no module that the service, handler
\* or path matching would have given it
C3_ControllerRoutesPlaced ==
    Returned =>
        LET listing == {i \in DOMAIN controllers :
                            truthy(controllers[i].name) /\ controllers[i].hasRoutes}
        IN  /\ \A i \in listing : \A r \in Range(controllers[i].routes) :
                  /\ extractModuleFromName(controllers[i].name) \in ModulesOf(chunks, r)
                  /\ controllers[i].name = nProductsController
                        => sProducts \in ModulesOf(chunks, r)
                  /\ ModulesOf(chunks, r) \subseteq
                        {extractModuleFromName(controllers[j].name) : j \in listing}

\* C3 witness: ProductsController lists GET /a.b/:id, a service is known, and the
\* route sits in module products
C3_Witness ==
    /\ Returned
    /\ kProducts \in Range(controllers)
    /\ services # <<>>
    /\ rItem \in Range(routes)
    /\ ModulesOf(chunks, rItem) = {sProducts}

\* C4: every module name that is a key of the result consists of characters of
\* [a-zA-Z0-9_-] only
C4_ModuleNamesSafe ==
    Returned => \A k \in DOMAIN chunks.bucket : Range(k) \subseteq SafeChars

\* C10: the module of a route depends on the route, the controllers and the
\* services only: in the list it gets the module it gets when every other route is
\* removed (so neither its position nor the other routes matter)
C10_ModulePerRoute ==
    Returned =>
        \A r \in Range(routes) :
            ModulesOf(chunks, r)
              = ModulesOf(groupRoutesByController(<<r>>, services, controllers), r)

(***************************************************************************)
(* Properties of the ai:chunks run                                         *)
(***************************************************************************)
\* C9: every per-module analysis object written by ai:chunks has metadata counts
\* equal to the lengths of its lists, the input analysis having such counts
C9_ChunkCounts ==
    cmd = "chunks" =>
        \A f \in DOMAIN cli.fs :
            f.ext = "analysis.json" =>
                LET data == cli.fs[f]
                IN  /\ data.metadata.totalRoutes = Len(data.routes)
                    /\ data.metadata.totalServices = Len(data.services)
                    /\ data.metadata.totalTypes = Len(data.types)
                    /\ data.metadata.totalControllers = Len(data.controllers)

\* C9 witness: a chunk was written whose lists differ in length from the lists of
\* the whole analysis, with a controller in it
C9_Witness ==
    /\ cmd = "chunks"
    /\ \E f \in DOMAIN cli.fs :
          /\ f.ext = "analysis.json"
          /\ Len(cli.fs[f].routes) # Len(routes)
          /\ Len(cli.fs[f].types) # Len(types)
          /\ Len(cli.fs[f].controllers) = 1

(***************************************************************************)
(* Properties of the watch service                                         *)
(***************************************************************************)
\* C5: at most one analysis is in flight at any time, and while one is in flight
\* the guard isAnalyzing is set, so that a trigger arriving then starts no second one
C5_OneAnalysisInFlight ==
    cmd = "watch" =>
        /\ Len(watch.runs) <= 1
        /\ Len(watch.runs) = 1 => watch.isAnalyzing

\* C5 witness: a trigger arrived while an analysis was in flight and was skipped
C5_Witness ==
    /\ cmd = "watch"
    /\ hist.skipped
    /\ Len(watch.runs) = 1

C7_EventLeadsToAnalysis == hist.dirty ~> ~hist.dirty

(***************************************************************************)
(* Properties of the analyze command and of the watch-mode database stats  *)
(***************************************************************************)
\* C8: a MongoDB failure never aborts or invalidates a successful analysis.
\* analyze exits with an error only if the analysis or the AI step failed; a
\* caught MongoDB error leaves the written files as they are, and from the save
\* block of the analysis the command goes on to the AI call when requested (an
\* API key being configured) and ends with status 0 otherwise.  In watch mode a
\* run whose database statistics could not be fetched ends with the status
\* analysis complete, not building, the error field untouched.
C8_DbFailureTolerated ==
    /\ [](cmd = "analyze" /\ cli.exit = "1" => ~cli.analysisOk \/ cli.ai \in {"nokey", "fail"})
    /\ [][(cmd = "analyze" /\ cli'.dbFailures > cli.dbFailures) =>
             /\ cli'.fs = cli.fs
             /\ cli'.exit # "1" \/ (cli.optAi /\ ~cli.hasKey)
             /\ (pc \in {"db_connect", "db_save", "db_disconnect"} /\ cli.optAi /\ cli.hasKey)
                   => pc' = "ai"
             /\ (pc \in {"db_connect", "db_save", "db_disconnect"} /\ ~cli.optAi)
                   => cli'.exit = "0"
             /\ pc \in {"doc_connect", "doc_save", "doc_disconnect"} => cli'.exit = "0"]_vars
    /\ [][(cmd = "watch" /\ Len(watch'.runs) < Len(watch.runs)
              /\ hist'.lastEnd = "stats failed") =>
             /\ status'.status = "Analysis complete - watching for changes..."
             /\ ~status'.isBuilding
             /\ status'.error = status.error]_vars

\* C8 witness: the MongoDB save of analyze failed, the analysis file is as it was
\* written, the AI documentation was generated and the command ended with status 0
C8_Witness ==
    /\ cmd = "analyze"
    /\ pc = "done"
    /\ cli.dbFailures > 0
    /\ cli.exit = "0"
    /\ cli.ai = "ok"
    /\ "analysisFilename" \in DOMAIN cli.fs
    /\ cli.fs["analysisFilename"] = "analysis"

(***************************************************************************)
(* The fallback loop of the grouping on routes of plain applications:      *)
(* handlers named after CRUD verbs or anonymous, paths with and without    *)
(* segments, at most one controller that lists other routes.               *)
(***************************************************************************)
MaxCascadeRoutes      == 2
MaxCascadeServices    == 1
MaxCascadeControllers == 1

\* POST /orders  createOrder
rOrder    == Route("POST", <<"/","o","r","d","e","r","s">>, <<"c","r","e","a","t","e","O","r","d","e","r">>)
\* DELETE /items/:id  (anonymous handler)
rItems    == Route("DELETE", <<"/","i","t","e","m","s","/",":","i","d">>, <<>>)
\* DELETE /:id  (anonymous handler)
rAnon     == Route("DELETE", <<"/",":","i","d">>, <<>>)
\* GET /api  listCategories
rCats     == Route("GET", <<"/","a","p","i">>, <<"l","i","s","t","C","a","t","e","g","o","r","i","e","s">>)
\* GET /api/users  index
rApiUsers == Route("GET", <<"/","a","p","i","/","u","s","e","r","s">>, <<"i","n","d","e","x">>)
\* PUT /A.b/:id  index
rDotted   == Route("PUT", <<"/","A",".","b","/",":","i","d">>, <<"i","n","d","e","x">>)

CascadeRoutePool      == {rOrder, rItems, rAnon, rCats, rApiUsers, rDotted}
CascadeServicePool    == {[name |-> nUserService], [name |-> nCategory]}
CascadeControllerPool == {kProducts}

InitCascade ==
    /\ cmd = "group"
    /\ pc = "call"
    /\ routes \in SeqsUpTo(CascadeRoutePool, MaxCascadeRoutes)
    /\ services \in DistinctSeqsUpTo(CascadeServicePool, MaxCascadeServices)
    /\ controllers \in DistinctSeqsUpTo(CascadeControllerPool, MaxCascadeControllers)
    /\ types = <<>>
    /\ chunks = EmptyChunks
    /\ cli = NoCli
    /\ watch = NoWatch
    /\ status = NoStatus
    /\ hist = NoHist

SpecCascade == InitCascade /\ [][NextGroup]_vars

(***************************************************************************)
(* Properties of the fallback strategies                                   *)
(***************************************************************************)
\* some controller with a name and a routes list lists route r
ListedByController(r) ==
    \E i \in DOMAIN controllers :
        /\ truthy(controllers[i].name) /\ controllers[i].hasRoutes
        /\ r \in Range(controllers[i].routes)

\* the module names derived from the known service names
ServiceModuleNames ==
    {extractModuleFromName(services[i].name) :
        i \in {j \in DOMAIN services : truthy(services[j].name)}}

\* the handler name or the path of r textually contains module name m
NamesModule(r, m) ==
    includes(toLowerCase(r.handler), m) \/ includes(toLowerCase(r.path), m)

MatchesSomeService(r) == \E m \in ServiceModuleNames : NamesModule(r, m)

HasKeyword(handler, words) == \E w \in words : includes(toLowerCase(handler), w)

\* the CRUD-verb table: create/add, find/get/list, update/edit/modify,
\* delete/remove, hello/health/status
CrudModuleOf(handler) ==
    IF HasKeyword(handler, {<<"c","r","e","a","t","e">>, <<"a","d","d">>}) THEN <<"c","r","e","a","t","e">>
    ELSE IF HasKeyword(handler, {<<"f","i","n","d">>, <<"g","e","t">>, <<"l","i","s","t">>}) THEN <<"r","e","a","d">>
    ELSE IF HasKeyword(handler, {<<"u","p","d","a","t","e">>, <<"e","d","i","t">>, <<"m","o","d","i","f","y">>}) THEN <<"u","p","d","a","t","e">>
    ELSE IF HasKeyword(handler, {<<"d","e","l","e","t","e">>, <<"r","e","m","o","v","e">>}) THEN <<"d","e","l","e","t","e">>
    ELSE IF HasKeyword(handler, {<<"h","e","l","l","o">>, <<"h","e","a","l","t","h">>, <<"s","t","a","t","u","s">>}) THEN sApp
    ELSE Null

\* the HTTP-method table: POST, GET, PUT/PATCH, DELETE, otherwise misc; root GET is app
MethodModuleOf(r) ==
    IF r.method = "GET" /\ r.path = sSlash THEN sApp
    ELSE IF r.method = "POST" THEN <<"c","r","e","a","t","e">>
    ELSE IF r.method = "GET" THEN <<"r","e","a","d">>
    ELSE IF r.method \in {"PUT", "PATCH"} THEN <<"u","p","d","a","t","e">>
    ELSE IF r.method = "DELETE" THEN <<"d","e","l","e","t","e">>
    ELSE <<"m","i","s","c">>

\* C11: a route that no controller lists is in the module derived from a known
\* service name whenever its handler name or its path contains that module name
C11_ServiceModuleByName ==
    Returned =>
        \A i \in DOMAIN routes :
            ~ListedByController(routes[i]) =>
                \A m \in ServiceModuleNames :
                    NamesModule(routes[i], m) => m \in ModulesOf(chunks, routes[i])

\* C12: a route that matches no controller and no service and whose handler name
\* holds a CRUD keyword is in the module of that keyword (createOrder: create)
C12_CrudKeywordModule ==
    Returned =>
        \A i \in DOMAIN routes :
            ( /\ ~ListedByController(routes[i])
              /\ ~MatchesSomeService(routes[i])
              /\ CrudModuleOf(routes[i].handler) # Null )
            => ModulesOf(chunks, routes[i]) = {CrudModuleOf(routes[i].handler)}

\* C13: a route that no controller lists, that matches no service and whose handler
\* name holds no CRUD keyword is in the module named by the lower-cased first path
\* segment that is neither empty nor a parameter
C13_FirstPathSegmentModule ==
    Returned =>
        \A i \in DOMAIN routes :
            ( /\ ~ListedByController(routes[i])
              /\ ~MatchesSomeService(routes[i])
              /\ CrudModuleOf(routes[i].handler) = Null
              /\ pathSegments(routes[i].path) # <<>> )
            => ModulesOf(chunks, routes[i]) = {toLowerCase(pathSegments(routes[i].path)[1])}

\* C14: a route that is a method and a path only (no controller lists it, no
\* service matches it, it has no handler name) is in the module of its HTTP
\* method (DELETE /items/:id: delete)
C14_MethodModule ==
    Returned =>
        \A i \in DOMAIN routes :
            ( /\ ~ListedByController(routes[i])
              /\ ~MatchesSomeService(routes[i])
              /\ ~truthy(routes[i].handler) )
            => ModulesOf(chunks, routes[i]) = {MethodModuleOf(routes[i])}

(***************************************************************************)
(* The derivation of module names on its own: one class name, given both   *)
(* as a service and as a controller, through the first two passes of       *)
(* groupRoutesByController (cli.ts 437-468).                               *)
(***************************************************************************)
MaxStem == 2   \* longest stem of a class name

StemChars == {"A", "y", "s"}

\* the suffixes as they are usually written, two of them in another case
SuffixWords == {<<"S","e","r","v","i","c","e">>, <<"C","o","n","t","r","o","l","l","e","r">>, <<"D","t","o">>, <<"E","n","t","i","t","y">>, <<"M","o","d","e","l">>, <<"T","y","p","e">>, <<"I","n","t","e","r","f","a","c","e">>}
OtherCaseSuffixes == {<<"S","E","R","V","I","C","E">>, <<"t","y","p","e">>}

nIdentity == <<"I","d","e","n","t","i","t","y">>

ClassNames ==
    ({stem \o suffix : stem \in SeqsUpTo(StemChars, MaxStem),
                       suffix \in {sEmpty} \cup SuffixWords \cup OtherCaseSuffixes}
        \cup {nIdentity}) \ {sEmpty}

InitNames ==
    /\ cmd = "names"
    /\ pc = "call"
    /\ routes = <<rItem>>
    /\ \E name \in ClassNames :
         /\ services = <<[name |-> name]>>
         /\ controllers = <<Controller(name, TRUE, <<rItem>>)>>
    /\ types = <<>>
    /\ chunks = EmptyChunks
    /\ cli = NoCli
    /\ watch = NoWatch
    /\ status = NoStatus
    /\ hist = NoHist

\* 437-468: serviceModules is filled, then the controllers fill chunks
DeriveModules ==
    /\ cmd = "names"
    /\ pc = "call"
    /\ cli' = [step |-> "derived", serviceModules |-> serviceModulesOf(services)]
    /\ chunks' = controllerPass(controllers, EmptyChunks)
    /\ pc' = "derived"
    /\ UNCHANGED <<cmd, routes, services, controllers, types, watch, status, hist>>

NextNames == DeriveModules

SpecNames == InitNames /\ [][NextNames]_vars

\* the plural of a lower-case word: y -> ies, a final s stays, else s is appended
PluralOf(w) ==
    IF w # <<>> /\ w[Len(w)] = "y" THEN SubSeq(w, 1, Len(w) - 1) \o <<"i","e","s">>
    ELSE IF w # <<>> /\ w[Len(w)] = "s" THEN w
    ELSE w \o <<"s">>

\* name without its one trailing suffix word; sameCase says whether the suffix
\* has to be written as in SuffixWords
WithoutSuffix(name, sameCase) ==
    LET fits(w) == IF sameCase THEN endsWith(name, w)
                   ELSE endsWith(toLowerCase(name), toLowerCase(w))
    IN  IF \E w \in SuffixWords : fits(w)
        THEN LET w == CHOOSE x \in SuffixWords : fits(x)
             IN  SubSeq(name, 1, Len(name) - Len(w))
        ELSE name

Derived == cmd = "names" /\ pc = "derived"

DerivedAs(sameCase) ==
    LET name == services[1].name
        expected == PluralOf(toLowerCase(WithoutSuffix(name, sameCase)))
    IN  /\ cli.serviceModules = <<[module |-> expected, serviceName |-> name]>>
        /\ chunks.keys = <<expected>>

\* what the code derives: the suffix is recognised in whatever case the name
\* writes it (Identity ends in entity), the rest is as C15 says
DerivedModuleNameAnyCase == Derived => DerivedAs(FALSE)

\* C15: the module derived from a non-empty class name is the name without one
\* trailing Controller/Service/Dto/Entity/Model/Type/Interface, lower-cased, with
\* a final y turned into ies and an s appended unless the word ends in s;
\* services and controllers get the same name
C15_DerivedModuleName == Derived => DerivedAs(TRUE)

(***************************************************************************)
(* Further properties of watch mode and of the analyze command             *)
(***************************************************************************)
\* C16: with autoAnalyze = false no file event ever schedules or starts an
\* analysis: no debounce timer is pending and no performAnalysis call is in flight
C16_NoAutoAnalyzeNoAnalysis ==
    (cmd = "watch" /\ ~watch.autoAnalyze) =>
        /\ watch.timers = <<>>
        /\ watch.debounceTimer = 0
        /\ watch.runs = <<>>
        /\ ~watch.isAnalyzing

\* C17: an analysis in flight is ended by nothing but its own completion or
\* failure (no file event, timer firing or stop() removes or restarts it), the
\* guard isAnalyzing is set exactly while a run is in flight, and every run in
\* flight ends, with or without stop(), leaving the guard reset
C17_AnalysisRunsToEnd ==
    /\ [](cmd = "watch" => (watch.isAnalyzing <=> watch.runs # <<>>))
    /\ [][(cmd = "watch" /\ watch.runs # <<>> /\ watch.runs' # watch.runs)
            => (RunStep /\ (watch'.runs = <<>> => ~watch'.isAnalyzing))]_vars
    /\ ((cmd = "watch" /\ watch.isAnalyzing) ~> (watch.runs = <<>> /\ ~watch.isAnalyzing))

\* C17 witness: stop() was called while an analysis was in flight, stop() has
\* finished, and the analysis has run on to its end and reset the guard
C17_Witness ==
    /\ cmd = "watch"
    /\ hist.stopInFlight
    /\ watch.phase = "stopped"
    /\ hist.lastEnd = "complete"
    /\ watch.runs = <<>>
    /\ ~watch.isAnalyzing

\* C18: when the AI call of analyze --ai rejects, the error is logged, the process
\* exits with status 1, and the step leaves the files alone: the analysis file
\* written before the AI step is still there with the analysis as its content
C18_AiFailureSurfaced ==
    /\ []((cmd = "analyze" /\ cli.ai = "fail") =>
            /\ cli.exit = "1"
            /\ "Analysis failed" \in Range(cli.errorLog)
            /\ cli.saveRaw => /\ analysisPath(cli) \in DOMAIN cli.fs
                               /\ cli.fs[analysisPath(cli)] = "analysis")
    /\ [][(cmd = "analyze" /\ pc = "ai" /\ cli'.ai = "fail") => cli'.fs = cli.fs]_vars

\* C18 witness: the AI call failed after the analysis file had been written
C18_Witness ==
    /\ cmd = "analyze"
    /\ cli.ai = "fail"
    /\ cli.exit = "1"
    /\ cli.saveRaw
    /\ analysisPath(cli) \in DOMAIN cli.fs

\* C19: the stages of analyze follow one another: a file is written only after
\* the analysis resolved, the MongoDB save is attempted only after the analysis
\* file was written (if it is written at all), and the AI step begins only when
\* the save attempt is over, by success or by a caught failure
C19_StagesInSequence ==
    cmd = "analyze" =>
        /\ cli.fs # <<>> => cli.analysisOk
        /\ cli.db # "none" =>
              /\ cli.analysisOk
              /\ cli.saveToDb
              /\ cli.saveRaw => analysisPath(cli) \in DOMAIN cli.fs
        /\ cli.db = "running" => (cli.ai = "none" /\ pc \in {"db_connect", "db_save", "db_disconnect"})
        /\ cli.ai # "none" =>
              /\ cli.analysisOk
              /\ cli.saveRaw => analysisPath(cli) \in DOMAIN cli.fs
              /\ cli.saveToDb => cli.db \in {"saved", "failed"}
              /\ ~cli.saveToDb => cli.db = "none"

\* C19 witness: the AI call is in flight after the analysis file was written and
\* the MongoDB save had failed and been caught
C19_Witness ==
    /\ cmd = "analyze"
    /\ pc = "ai"
    /\ cli.ai = "called"
    /\ cli.db = "failed"
    /\ cli.saveRaw
    /\ analysisPath(cli) \in DOMAIN cli.fs

(***************************************************************************)
(* Two calls of groupRoutesByController in a row on the same lists, as     *)
(* when the grouping is recomputed on a later request.  chunks (435) and   *)
(* serviceModules (438) are locals, created anew by each call.             *)
(***************************************************************************)
MaxTwiceRoutes      == 2
MaxTwiceServices    == 1
MaxTwiceControllers == 1

TwiceRoutePool      == {rItem, rParam, rRoot, rCtor}
TwiceServicePool    == {[name |-> nUserService], [name |-> nCategory]}
TwiceControllerPool == {kProducts}

InitTwice ==
    /\ cmd = "twice"
    /\ pc = "call"
    /\ routes \in SeqsUpTo(TwiceRoutePool, MaxTwiceRoutes)
    /\ services \in DistinctSeqsUpTo(TwiceServicePool, MaxTwiceServices)
    /\ controllers \in DistinctSeqsUpTo(TwiceControllerPool, MaxTwiceControllers)
    /\ types = <<>>
    /\ chunks = EmptyChunks
    /\ cli = [step |-> "none", result |-> EmptyChunks]
    /\ watch = NoWatch
    /\ status = NoStatus
    \* the lists as they were handed to the first call
    /\ hist = [routes |-> routes, services |-> services, controllers |-> controllers]

\* the first call returns or throws; the caller keeps what it got
GroupFirst ==
    /\ cmd = "twice"
    /\ pc = "call"
    /\ chunks' = groupRoutesByController(routes, services, controllers)
    /\ cli' = [step |-> "first", result |-> chunks']
    /\ pc' = "once"
    /\ UNCHANGED <<cmd, routes, services, controllers, types, watch, status, hist>>

\* a plausible slip: chunks declared outside the function and so shared by the calls
GroupSecond_SharedChunks ==
    /\ cmd = "twice"
    /\ pc = "once"
    /\ chunks' = LET byController == controllerPass(controllers, chunks)
                 IN  IF byController.threw \/ Len(byController.keys) # 0
                     THEN byController
                     ELSE fallbackPass(routes, 0, serviceModulesOf(services), byController)
    /\ pc' = "twice"
    /\ UNCHANGED <<cmd, routes, services, controllers, types, cli, watch, status, hist>>

\* the second call, on the lists as the first call left them
GroupSecond ==
    /\ cmd = "twice"
    /\ pc = "once"
    /\ chunks' = groupRoutesByController(routes, services, controllers)
    /\ pc' = "twice"
    /\ UNCHANGED <<cmd, routes, services, controllers, types, cli, watch, status, hist>>

NextTwice == GroupFirst \/ GroupSecond

SpecTwice == InitTwice /\ [][NextTwice]_vars

InLoop == cmd = "chunks" /\ pc \in {"ai", "db_connect", "db_save", "db_disconnect"}

\* C21: ai:chunks handles one module at a time.  While module idx is at its AI
\* call its JSON is written and its Markdown is not; while its database save runs
\* its Markdown is written; the modules before idx have both files, the modules
\* after idx have none; and a failed AI call ends the run with exit status 1 and
\* leaves every file as it was
C21_OneModuleAtATime ==
    /\ [](InLoop =>
            /\ cli.idx \in DOMAIN chunks.keys
            /\ \A j \in DOMAIN chunks.keys :
                  /\ j < cli.idx => /\ JsonFile(chunks.keys[j]) \in DOMAIN cli.fs
                                    /\ MdFile(chunks.keys[j]) \in DOMAIN cli.fs
                  /\ j > cli.idx => /\ JsonFile(chunks.keys[j]) \notin DOMAIN cli.fs
                                    /\ MdFile(chunks.keys[j]) \notin DOMAIN cli.fs
            /\ JsonFile(chunks.keys[cli.idx]) \in DOMAIN cli.fs
            /\ MdFile(chunks.keys[cli.idx]) \in DOMAIN cli.fs <=> pc # "ai")
    /\ [][(cmd = "chunks" /\ pc = "ai" /\ pc' = "failed")
            => (cli'.exit = "1" /\ cli'.fs = cli.fs)]_vars
    /\ [][(InLoop /\ cli'.idx # cli.idx)
            => (cli'.idx = cli.idx + 1 /\ pc \in {"ai", "db_disconnect", "db_connect", "db_save"}
                /\ (pc = "ai" => ~cli.saveToDb))]_vars

\* C21 witness: the AI call for the second module failed; the run ended with an
\* error and the first module's two files are still there
C21_Witness ==
    /\ cmd = "chunks"
    /\ pc = "failed"
    /\ ~chunks.threw
    /\ cli.idx = 2
    /\ cli.exit = "1"
    /\ JsonFile(chunks.keys[1]) \in DOMAIN cli.fs
    /\ MdFile(chunks.keys[1]) \in DOMAIN cli.fs
    /\ JsonFile(chunks.keys[2]) \in DOMAIN cli.fs

(***************************************************************************)
(* MongoDBDataService (mongodb-data-service.ts): a caller runs query       *)
(* operations one after the other.  The adapter behind the service keeps   *)
(* one connection: connect() opens it or rejects, a query resolves or      *)
(* rejects, disconnect() closes it.                                        *)
(***************************************************************************)
MaxCalls == 2   \* operations of one run

QueryOps == {"getLatestDocuments", "getDocumentsByRunId", "getDocumentCount",
             "getUniqueChunkTimes", "getDocumentsByChunkTime", "updateDocumentContent",
             "getDocumentsWithOptions", "getAnalysisStats"}

\* MongoDBAdapter.connect / disconnect on the adapter's connection state
adapterConnect(a)    == [a EXCEPT !.connected = TRUE, !.connects = @ + 1]
adapterDisconnect(a) == [a EXCEPT !.connected = FALSE, !.disconnects = @ + 1]

NoCall == [op |-> "none", connects |-> 0, disconnects |-> 0, queried |-> FALSE,
           queriedConnected |-> FALSE, queryFailed |-> FALSE, pending |-> "none"]

InitData ==
    /\ cmd = "data"
    /\ pc = "idle"
    /\ routes = <<>> /\ services = <<>> /\ controllers = <<>> /\ types = <<>>
    /\ chunks = EmptyChunks
    /\ cli = [adapter |-> [connected |-> FALSE, connects |-> 0, disconnects |-> 0],
              call    |-> NoCall,     \* the operation in progress
              log     |-> <<>>]       \* the operations that settled, with their outcome
    /\ watch = NoWatch
    /\ status = NoStatus
    /\ hist = NoHist

\* the caller invokes an operation: try { await this.connect() ...
DataCall ==
    /\ cmd = "data" /\ pc = "idle"
    /\ Len(cli.log) < MaxCalls
    /\ \E op \in QueryOps :
         cli' = [cli EXCEPT !.call = [NoCall EXCEPT !.op = op, !.connects = 1]]
    /\ pc' = "connect"
    /\ UNCHANGED <<cmd, routes, services, controllers, types, chunks, watch, status, hist>>

\* a plausible slip: disconnect() at the end of the try block, no finally
toFinally_TryOnly(c, outcome) ==
    IF outcome = "error"
    THEN /\ pc' = "idle"
         /\ cli' = [c EXCEPT !.log = Append(@, [c.call EXCEPT !.pending = outcome]),
                             !.call = NoCall]
    ELSE /\ pc' = "disconnect"
         /\ cli' = [c EXCEPT !.call.pending = outcome,
                             !.call.disconnects = @ + 1]

\* return / catch { console.error; throw error } finally { await this.disconnect() }:
\* the outcome is kept while disconnect() is awaited
toFinally(c, outcome) ==
    /\ pc' = "disconnect"
    /\ cli' = [c EXCEPT !.call.pending = outcome,
                        !.call.disconnects = @ + 1]

\* connect() resolved.  getDocumentsWithOptions builds its query first (208-217),
\* which may throw; the others await the adapter's query at once
DataConnectOk ==
    /\ cmd = "data" /\ pc = "connect"
    /\ LET c == [cli EXCEPT !.adapter = adapterConnect(@)]
           q == [c EXCEPT !.call.queried = TRUE,
                          !.call.queriedConnected = c.adapter.connected]
       IN  \/ /\ pc' = "query"
              /\ cli' = q
           \/ /\ c.call.op = "getDocumentsWithOptions"
              /\ toFinally(c, "error")
    /\ UNCHANGED <<cmd, routes, services, controllers, types, chunks, watch, status, hist>>

\* connect() rejected: catch, rethrow, finally
DataConnectFail ==
    /\ cmd = "data" /\ pc = "connect"
    /\ toFinally(cli, "error")
    /\ UNCHANGED <<cmd, routes, services, controllers, types, chunks, watch, status, hist>>

\* the query resolved: the result is mapped and returned (updateDocumentContent
\* returns null when nothing was updated)
DataQueryOk ==
    /\ cmd = "data" /\ pc = "query"
    /\ \E outcome \in (IF cli.call.op = "updateDocumentContent"
                        THEN {"result", "null"} ELSE {"result"}) :
         toFinally(cli, outcome)
    /\ UNCHANGED <<cmd, routes, services, controllers, types, chunks, watch, status, hist>>

\* the query rejected: catch, rethrow, finally
DataQueryFail ==
    /\ cmd = "data" /\ pc = "query"
    /\ toFinally([cli EXCEPT !.call.queryFailed = TRUE], "error")
    /\ UNCHANGED <<cmd, routes, services, controllers, types, chunks, watch, status, hist>>

\* disconnect() resolved: the operation settles with the outcome it kept
DataDisconnectOk ==
    /\ cmd = "data" /\ pc = "disconnect"
    /\ pc' = "idle"
    /\ cli' = [cli EXCEPT !.adapter = adapterDisconnect(@),
                          !.log = Append(@, cli.call),
                          !.call = NoCall]
    /\ UNCHANGED <<cmd, routes, services, controllers, types, chunks, watch, status, hist>>

NextData ==
    \/ DataCall
    \/ DataConnectOk
    \/ DataConnectFail
    \/ DataQueryOk
    \/ DataQueryFail
    \/ DataDisconnectOk

SpecData == InitData /\ [][NextData]_vars

MaxScalarControllers == 2
MaxScalarTotal       == 3   \* largest totalRoutes of aiInput.metadata

ScalarControllerPool == {kProducts, kUnsafe, kNoName}

\* controllers.forEach (555-573)
RECURSIVE scalarPass(_, _)
scalarPass(ctrls, ch) ==
    IF ctrls = <<>> THEN ch
    ELSE LET controller == Head(ctrls)
             moduleName == toLowerCase(stripSuffixI(controller.name, {sController}))
             sanitizedModuleName == sanitize(moduleName)
             next == IF truthy(controller.name) /\ controller.hasRoutes
                     THEN pushAll(ch, sanitizedModuleName, controller.routes)
                     ELSE ch
         IN  scalarPass(Tail(ctrls), next)

groupRoutesByScalarControllers(ctrls) == scalarPass(ctrls, EmptyChunks)

\* moduleData (688-692): the spread keeps the metadata of aiInput, moduleName is added
scalarModuleData(ch, moduleName, metadata) ==
    [routes      |-> ch.bucket[moduleName],
     controllers |-> controllers,
     metadata    |-> [totalRoutes |-> metadata.totalRoutes, moduleName |-> moduleName]]

InitScalar ==
    /\ cmd = "scalar"
    /\ pc = "start"
    /\ routes = <<>> /\ services = <<>> /\ types = <<>>
    /\ controllers \in DistinctSeqsUpTo(ScalarControllerPool, MaxScalarControllers)
    /\ chunks = EmptyChunks
    /\ \E totalRoutes \in 0..MaxScalarTotal :
         cli = [idx |-> 0, fs |-> <<>>, exit |-> "running",
                metadata |-> [totalRoutes |-> totalRoutes]]
    /\ watch = NoWatch
    /\ status = NoStatus
    /\ hist = NoHist

\* the loop head (683-699): past the last module the action returns, otherwise
\* the AI call for the module is awaited
scalarBegin(ch, i, c) ==
    IF i > Len(ch.keys)
    THEN /\ pc' = "done"
         /\ cli' = [c EXCEPT !.idx = i, !.exit = "0"]
    ELSE /\ pc' = "ai"
         /\ cli' = [c EXCEPT !.idx = i]

\* 674-699
ScalarStart ==
    /\ cmd = "scalar" /\ pc = "start"
    /\ chunks' = groupRoutesByScalarControllers(controllers)
    /\ IF chunks'.threw
       THEN /\ pc' = "failed"
            /\ cli' = [cli EXCEPT !.exit = "1"]
       ELSE scalarBegin(chunks', 1, cli)
    /\ UNCHANGED <<cmd, routes, services, controllers, types, watch, status, hist>>

\* 697-715: generateDocumentation resolved; the Markdown and the analysis JSON of
\* the module are written and the next module begins
ScalarAiOk ==
    /\ cmd = "scalar" /\ pc = "ai"
    /\ LET moduleName == chunks.keys[cli.idx]
           c == [cli EXCEPT !.fs = (JsonFile(moduleName) :>
                                        scalarModuleData(chunks, moduleName, cli.metadata))
                                   @@ (MdFile(moduleName) :> "documentation") @@ @]
       IN  scalarBegin(chunks, cli.idx + 1, c)
    /\ UNCHANGED <<cmd, routes, services, controllers, types, chunks, watch, status, hist>>

\* 697, 719-725: generateDocumentation rejected
ScalarAiFail ==
    /\ cmd = "scalar" /\ pc = "ai"
    /\ pc' = "failed"
    /\ cli' = [cli EXCEPT !.exit = "1"]
    /\ UNCHANGED <<cmd, routes, services, controllers, types, chunks, watch, status, hist>>

NextScalar == ScalarStart \/ ScalarAiOk \/ ScalarAiFail

SpecScalar == InitScalar /\ [][NextScalar]_vars

\* C23: in every <module>-analysis.json written by scalar-ai-chunks,
\* metadata.totalRoutes is the number of routes in the file's routes list
C23_ScalarChunkRouteCount ==
    cmd = "scalar" =>
        \A f \in DOMAIN cli.fs :
            f.ext = "analysis.json" =>
                cli.fs[f].metadata.totalRoutes = Len(cli.fs[f].routes)

(***************************************************************************)
(* The commands that save to MongoDB: analyze (with the AI documentation   *)
(* step that the ai command shares) and ai:chunks                          *)
(***************************************************************************)
InitSaving == InitAnalyze \/ InitChunks

NextSaving == NextAnalyze \/ NextChunks

SpecSaving == InitSaving /\ [][NextSaving]_vars

SaveBlockStages == {"db_connect", "db_save", "db_disconnect",
                    "doc_connect", "doc_save", "doc_disconnect"}

\* C24: outside the save blocks no MongoDB connection opened by the command is
\* still open, whether the save succeeded or failed after a successful connect
C24_NoConnectionLeftOpen ==
    (cmd \in {"analyze", "chunks"} /\ pc \notin SaveBlockStages) => cli.connOpen = 0

(***************************************************************************)
(* Properties of the build status in watch mode                            *)
(***************************************************************************)
\* C25: when the status reports a completed analysis, it carries no error: the
\* error of an earlier failed analysis or of a watcher error has been cleared
C25_SuccessClearsError ==
    (cmd = "watch" /\ status.status = "Analysis complete - watching for changes...")
        => status.error = "none"

\* C26: while the watch service is running with no debounce timer pending and no
\* analysis in flight, the build status reports isBuilding = false
C26_QuiescentNotBuilding ==
    (cmd = "watch" /\ Listening /\ watch.timers = <<>> /\ watch.runs = <<>>)
        => ~status.isBuilding

\* C26 witness: a file was processed, a trigger was skipped during an analysis,
\* the analysis has ended, nothing is pending and the status is not building
C26_Witness ==
    /\ cmd = "watch"
    /\ watch.phase = "watching"
    /\ watch.timers = <<>>
    /\ watch.runs = <<>>
    /\ hist.skipped
    /\ hist.lastEnd # "none"
    /\ status.filesProcessed > 0
    /\ ~status.isBuilding

\* C27: once stop() has returned no debounce timer is pending, none becomes
\* pending, and no analysis is started any more
C27_StoppedStaysQuiet ==
    /\ []((cmd = "watch" /\ watch.phase = "stopped") =>
            (watch.timers = <<>> /\ watch.debounceTimer = 0))
    /\ [][(cmd = "watch" /\ watch.phase = "stopped") =>
            /\ watch'.timers = <<>>
            /\ Len(watch'.runs) <= Len(watch.runs)
            /\ watch'.phase = "stopped"]_vars

\* C27 witness: stop() was called with the debounce timer pending, and has
\* returned with the timer cancelled and the file event behind it not analysed
C27_Witness ==
    /\ cmd = "watch"
    /\ watch.phase = "stopped"
    /\ hist.stopTimerPending
    /\ ~hist.skipped
    /\ hist.dirty
    /\ watch.timers = <<>>

\* C28: groupRoutesByController returns and does not throw, also when a module
\* name is the name of a built-in object property such as constructor
C28_GroupingNeverThrows ==
    cmd = "twice" => ~chunks.threw

====
